---- MODULE Spec2Model ----
(***************************************************************************)
(* Model of the resource accessibility validator of                        *)
(* .github/code/tests/test_resource_accessibility.py                       *)
(* (class WebsiteResourceTester and main).                                 *)
(*                                                                         *)
(* Python strings are sequences of one-character strings, so that split,   *)
(* startswith, endswith, strip, replace and re.search are computed on the  *)
(* characters as the code computes them.  Paths (pathlib.Path) are         *)
(* sequences of path components.                                           *)
(***************************************************************************)
EXTENDS Integers, Naturals, Sequences, FiniteSets, TLC

(***************************************************************************)
(* str helpers.  A value that a Python expression uses several times is    *)
(* passed as an operator parameter, so that it is computed once.           *)
(***************************************************************************)
StartsWith(s, p) == Len(s) >= Len(p) /\ SubSeq(s, 1, Len(p)) = p

EndsWith(s, p) == Len(s) >= Len(p) /\ SubSeq(s, Len(s) - Len(p) + 1, Len(s)) = p

\* p in s
Contains(s, p) == \E i \in 1..(Len(s) - Len(p) + 1) : SubSeq(s, i, i + Len(p) - 1) = p

\* least element of a set of positions, 0 for the empty set
Least(hits) == IF hits = {} THEN 0 ELSE CHOOSE i \in hits : \A j \in hits : i <= j

\* greatest element of a set of positions, 0 for the empty set
Greatest(hits) == IF hits = {} THEN 0 ELSE CHOOSE i \in hits : \A j \in hits : i >= j

\* s.find(p) + 1 : position of the first occurrence of p in s, 0 when absent
Find(s, p) == Least({i \in 1..(Len(s) - Len(p) + 1) : SubSeq(s, i, i + Len(p) - 1) = p})

\* s[:k-1], all of s when k = 0
Upto(s, k) == IF k = 0 THEN s ELSE SubSeq(s, 1, k - 1)

\* s.split(p)[0]
Before(s, p) == Upto(s, Find(s, p))

\* s.split(p, 1)[1], for p in s
After(s, p) == SubSeq(s, Find(s, p) + Len(p), Len(s))

\* s.split(p)
RECURSIVE Split(_, _)
SplitAt(s, p, k) ==
    IF k = 0 THEN <<s>>
    ELSE <<SubSeq(s, 1, k - 1)>> \o Split(SubSeq(s, k + Len(p), Len(s)), p)

Split(s, p) == SplitAt(s, p, Find(s, p))

\* s.replace(p, r), left to right, non-overlapping
RECURSIVE Replace(_, _, _)
ReplaceAt(s, p, r, k) ==
    IF k = 0 THEN s
    ELSE SubSeq(s, 1, k - 1) \o r \o Replace(SubSeq(s, k + Len(p), Len(s)), p, r)

Replace(s, p, r) == ReplaceAt(s, p, r, Find(s, p))

Whitespace == {" ", "\t", "\n"}

\* the part of s between the first and the last position of keep
Trim(s, keep) == IF keep = {} THEN <<>> ELSE SubSeq(s, Least(keep), Greatest(keep))

\* s.strip()
Strip(s) == Trim(s, {i \in 1..Len(s) : s[i] \notin Whitespace})

\* s.strip('/')
StripSlash(s) == Trim(s, {i \in 1..Len(s) : s[i] # "/"})

UpperChars == <<"A","B","C","D","E","F","G","H","I","J","K","L","M",
                "N","O","P","Q","R","S","T","U","V","W","X","Y","Z">>

LowerChars == <<"a","b","c","d","e","f","g","h","i","j","k","l","m",
                "n","o","p","q","r","s","t","u","v","w","x","y","z">>

\* c.lower()
LowerChar(c, ks) == IF ks = {} THEN c ELSE LowerChars[CHOOSE k \in ks : TRUE]

\* s.lower()
Lower(s) == [i \in 1..Len(s) |-> LowerChar(s[i], {k \in 1..26 : UpperChars[k] = s[i]})]

\* The characters of the model in code point order (the order of sorted()).
CharOrder == <<"\t", "\n", " ", "\"", "#", "'", "-", ".", "/",
               "0","1","2","3","4","5","6","7","8","9", ":", "=", "?">>
             \o UpperChars \o <<"_">> \o LowerChars

Ord(c) == CHOOSE i \in 1..Len(CharOrder) : CharOrder[i] = c

\* a < b for str
RECURSIVE StrLess(_, _)
StrLess(a, b) ==
    IF b = <<>> THEN FALSE
    ELSE IF a = <<>> THEN TRUE
    ELSE IF Head(a) = Head(b) THEN StrLess(Tail(a), Tail(b))
    ELSE Ord(Head(a)) < Ord(Head(b))

\* sorted(S) for a set of str
RECURSIVE Sorted(_)
SortedFrom(S, m) == <<m>> \o Sorted(S \ {m})

Sorted(S) ==
    IF S = {} THEN <<>>
    ELSE SortedFrom(S, CHOOSE x \in S : \A y \in S \ {x} : StrLess(x, y))

(***************************************************************************)
(* String constants of the code                                            *)
(***************************************************************************)
HTTP == <<"h","t","t","p",":","/","/">>

HTTPS == <<"h","t","t","p","s",":","/","/">>

\* __init__: base_url default, after rstrip('/')
base_url == <<"h","t","t","p","s",":","/","/","p","r","a","j","i","t","d","a","s",
              ".","g","i","t","h","u","b",".","i","o">>

SKIP_DOMAINS == {
    <<"d","o","i",".","o","r","g">>,
    <<"d","x",".","d","o","i",".","o","r","g">>,
    <<"a","r","x","i","v",".","o","r","g">>,
    <<"i","e","e","e",".","o","r","g">>,
    <<"i","e","e","e","x","p","l","o","r","e",".","i","e","e","e",".","o","r","g">>,
    <<"d","l",".","a","c","m",".","o","r","g">>,
    <<"a","c","m",".","o","r","g">>,
    <<"s","e","a","r","c","h",".","p","r","o","q","u","e","s","t",".","c","o","m">>,
    <<"c","e","u","r","-","w","s",".","o","r","g">>,
    <<"i","g","i","-","g","l","o","b","a","l",".","c","o","m">>,
    <<"e","b","i","q","u","i","t","y",".","u","m","b","c",".","e","d","u">>}

DOI_ORG == <<"d","o","i",".","o","r","g">>

DX_DOI_ORG == <<"d","x",".","d","o","i",".","o","r","g">>

DOT_HTML == <<".","h","t","m","l">>

ExcludedPrefixes == {<<"#">>,
                     <<"j","a","v","a","s","c","r","i","p","t",":">>,
                     <<"m","a","i","l","t","o",":">>,
                     <<"t","e","l",":">>}

ResourceTypes == {"PDF", "IMAGES", "CSS", "JS", "HTML", "TEXT", "OTHER"}

\* CriticalTypes without the markup type
CriticalTypes_NoHtml == {"PDF", "CSS", "JS"}

\* CriticalTypes with the image type added
CriticalTypes_WithImages == {"PDF", "HTML", "CSS", "JS", "IMAGES"}

CriticalTypes == {"PDF", "HTML", "CSS", "JS"}

\* 'status_code': None
NoStatus == 0

(***************************************************************************)
(* urllib.parse.urlparse                                                   *)
(***************************************************************************)
Digits == {"0","1","2","3","4","5","6","7","8","9"}

Letters == {UpperChars[k] : k \in 1..26} \cup {LowerChars[k] : k \in 1..26}

SchemeChars == Letters \cup Digits \cup {"+", "-", "."}

\* position of the first character of s that is in C, Len(s) + 1 when none
FirstIn(s, hits) == IF hits = {} THEN Len(s) + 1 ELSE Least(hits)

FirstOf(s, C) == FirstIn(s, {i \in 1..Len(s) : s[i] \in C})

\* urlsplit, last step: path and query of the text before the fragment
SplitQuery(scheme, netloc, r3, fragment, q) ==
    [scheme |-> scheme, netloc |-> netloc,
     path |-> Upto(r3, q),
     query |-> IF q = 0 THEN <<>> ELSE SubSeq(r3, q + 1, Len(r3)),
     fragment |-> fragment]

\* urlsplit: the fragment is cut at the first '#', h its position
SplitFragment(scheme, netloc, r2, h) ==
    SplitQuery(scheme, netloc, Upto(r2, h),
               IF h = 0 THEN <<>> ELSE SubSeq(r2, h + 1, Len(r2)),
               Find(Upto(r2, h), <<"?">>))

\* urlsplit: the netloc runs from after '//' to the first of '/', '?', '#'
SplitNetlocAt(scheme, body, d) ==
    SplitFragment(scheme, SubSeq(body, 1, d - 1), SubSeq(body, d, Len(body)),
                  Find(SubSeq(body, d, Len(body)), <<"#">>))

SplitNetloc(scheme, r1) ==
    IF StartsWith(r1, <<"/", "/">>)
    THEN SplitNetlocAt(scheme, SubSeq(r1, 3, Len(r1)),
                       FirstOf(SubSeq(r1, 3, Len(r1)), {"/", "?", "#"}))
    ELSE SplitFragment(scheme, <<>>, r1, Find(r1, <<"#">>))

\* urlsplit: a scheme is the text before the first ':' (at position i) when it
\* starts with a letter and holds scheme characters only
SplitScheme(url, i) ==
    IF /\ i > 1
       /\ url[1] \in Letters
       /\ \A k \in 1..(i - 1) : url[k] \in SchemeChars
    THEN SplitNetloc(Lower(SubSeq(url, 1, i - 1)), SubSeq(url, i + 1, Len(url)))
    ELSE SplitNetloc(<<>>, url)

urlparse(url) == SplitScheme(url, Find(url, <<":">>))

(***************************************************************************)
(* classify_resource                                                       *)
(***************************************************************************)
ClassifyPath(path) ==
    IF EndsWith(path, <<".","p","d","f">>) THEN "PDF"
    ELSE IF \E e \in {<<".","p","n","g">>, <<".","j","p","g">>,
                      <<".","j","p","e","g">>, <<".","g","i","f">>,
                      <<".","s","v","g">>, <<".","i","c","o">>} :
                EndsWith(path, e) THEN "IMAGES"
    ELSE IF EndsWith(path, <<".","c","s","s">>) THEN "CSS"
    ELSE IF EndsWith(path, <<".","j","s">>) THEN "JS"
    ELSE IF \E e \in {<<".","h","t","m","l">>, <<".","h","t","m">>} :
                EndsWith(path, e) THEN "HTML"
    ELSE IF \E e \in {<<".","t","x","t">>, <<".","x","m","l">>,
                      <<".","j","s","o","n">>} :
                EndsWith(path, e) THEN "TEXT"
    ELSE "OTHER"

\* classify_resource without the lower-casing
classify_resource_CaseSensitive(resource_url) == ClassifyPath(urlparse(resource_url).path)

classify_resource(resource_url) == ClassifyPath(Lower(urlparse(resource_url).path))

(***************************************************************************)
(* The filesystem.  A site is a set of files [path, text]: path is the     *)
(* sequence of components below the site root, text the characters of the  *)
(* file that the anchor search reads.  Directories are the proper prefixes *)
(* of the file paths.  The site root is mounted at RootAbs in the host     *)
(* filesystem, which holds nothing else.                                   *)
(***************************************************************************)
\* self.local_path = Path(base_path).resolve()
local_path == << <<"w">> >>

DotDot == <<".", ".">>

IsPrefix(p, q) == Len(p) <= Len(q) /\ SubSeq(q, 1, Len(p)) = p

IsFile(fs, abs) == \E f \in fs : abs = local_path \o f.path

IsDir(fs, abs) ==
    \/ IsPrefix(abs, local_path)
    \/ \E f \in fs : IsPrefix(abs, local_path \o f.path) /\ abs # local_path \o f.path

Parent(p) == IF p = <<>> THEN <<>> ELSE SubSeq(p, 1, Len(p) - 1)

IsRealPart(g) == g # <<>> /\ g # <<".">>

\* pathlib parsing of a str: the components, and whether it is absolute
PathParts(s) == SelectSeq(Split(s, <<"/">>), IsRealPart)

IsAbsolute(s) == StartsWith(s, <<"/">>)

\* base / s   (pathlib: an absolute right operand replaces the left one)
JoinPath(base, s) == IF IsAbsolute(s) THEN PathParts(s) ELSE base \o PathParts(s)

\* Path.exists(): the operating system walks the components
RECURSIVE Walk(_, _, _)
WalkInto(fs, nxt, rest) ==
    IF IsDir(fs, nxt) THEN Walk(fs, nxt, rest)
    ELSE IsFile(fs, nxt) /\ rest = <<>>

Walk(fs, cur, rest) ==
    IF rest = <<>> THEN TRUE
    ELSE IF Head(rest) = DotDot THEN Walk(fs, Parent(cur), Tail(rest))
    ELSE WalkInto(fs, Append(cur, Head(rest)), Tail(rest))

exists(fs, abs) == Walk(fs, <<>>, abs)

\* Path.resolve(): '..' components are folded lexically
RECURSIVE Fold(_, _)
Fold(acc, rest) ==
    IF rest = <<>> THEN acc
    ELSE IF Head(rest) = DotDot THEN Fold(Parent(acc), Tail(rest))
    ELSE Fold(Append(acc, Head(rest)), Tail(rest))

resolve(abs) == Fold(<<>>, abs)

\* open(path).read() / Path.read_text(): the text of the file at an existing
\* path; reading a directory raises, which both callers catch
CanRead(fs, abs) == IsFile(fs, resolve(abs))

read_text(fs, abs) == (CHOOSE f \in fs : local_path \o f.path = resolve(abs)).text

\* self.local_path.rglob(name) for a name without glob characters: every
\* entry, file or directory, below the root whose last component is name
Entries(fs) == UNION {{SubSeq(f.path, 1, n) : n \in 1..Len(f.path)} : f \in fs}

rglob(fs, name) == {local_path \o e : e \in {x \in Entries(fs) : x[Len(x)] = name}}

\* re.search(rf'(name="{re.escape(fragment)}"|id="{re.escape(fragment)}")', content)
anchor_search(content, fragment) ==
    \/ Contains(content, <<"n","a","m","e","=","\"">> \o fragment \o <<"\"">>)
    \/ Contains(content, <<"i","d","=","\"">> \o fragment \o <<"\"">>)

\* the try block around the anchor search: an unreadable target counts as
\* a missing anchor
AnchorIn(fs, abs, fragment) ==
    CanRead(fs, abs) /\ anchor_search(read_text(fs, abs), fragment)

\* the longest file name the operating system accepts
NAME_MAX == 255

\* full_path.exists() on a path with a longer component: stat fails with
\* ENAMETOOLONG, which pathlib before 3.13 raises as OSError and pathlib
\* from 3.13 on answers with False
NameTooLong(abs) == \E k \in 1..Len(abs) : Len(abs[k]) > NAME_MAX

(***************************************************************************)
(* test_local_file_exists                                                  *)
(***************************************************************************)
IsExternal(url) == StartsWith(url, HTTP) \/ StartsWith(url, HTTPS)

HasFragment(resource_url) == Find(resource_url, <<"#">>) > 0

\* resource_url.split('#', 1)[1], None without '#' (h the position of '#')
FragmentAt(resource_url, h) ==
    IF h = 0 THEN <<>> ELSE SubSeq(resource_url, h + 1, Len(resource_url))

FragmentOf(resource_url) == FragmentAt(resource_url, Find(resource_url, <<"#">>))

\* the path with fragment and query string removed
CleanPath(resource_url) == Before(Before(resource_url, <<"#">>), <<"?">>)

\* LocalCheckAt without the anchor validation
LocalCheckAt_NoAnchor(fs, clean_path, fragment, full_path) == exists(fs, full_path)

LocalCheckAt(fs, clean_path, fragment, full_path) ==
    IF ~exists(fs, full_path) THEN FALSE
    ELSE IF fragment # <<>> /\ EndsWith(clean_path, DOT_HTML)
         THEN AnchorIn(fs, full_path, fragment)
         ELSE TRUE

LocalCheck(fs, clean_path, fragment) ==
    LocalCheckAt(fs, clean_path, fragment, JoinPath(local_path, clean_path))

\* test_local_file_exists without the early return for external URLs
test_local_file_exists_NoGuard(fs, resource_url) ==
    LocalCheck(fs, CleanPath(resource_url), FragmentOf(resource_url))

\* whether base_exists = full_path.exists() can raise; nothing catches it
ExistsCanRaise(resource_url) ==
    /\ ~IsExternal(resource_url)
    /\ NameTooLong(JoinPath(local_path, CleanPath(resource_url)))

test_local_file_exists(fs, resource_url) ==
    IF IsExternal(resource_url) THEN FALSE
    ELSE LocalCheck(fs, CleanPath(resource_url), FragmentOf(resource_url))

(***************************************************************************)
(* test_web_accessibility.  head and get are what the server does with the *)
(* HEAD request and with the GET retry: an HTTP status, or TransportError  *)
(* (requests.exceptions.RequestException).  The field requests lists the   *)
(* requests the call issued, logged the log_url_failure call it made.      *)
(***************************************************************************)
TransportError == -1

Statuses == {200, 301, 302, 303, 307, 308, 403, 404, 418, 429, 500}

BuildTestUrl(url) ==
    IF ~IsExternal(url)
    THEN IF StartsWith(url, <<"/">>) THEN base_url \o url
         ELSE base_url \o <<"/">> \o url
    ELSE url

DomainOf(test_url) == Lower(urlparse(test_url).netloc)

\* SkipListed by equality instead of substring search
SkipListed_Exact(domain) == domain \in SKIP_DOMAINS

SkipListed(domain) == \E d \in SKIP_DOMAINS : Contains(domain, d)

\* AcceptableStatuses with the CI statuses accepted everywhere
AcceptableStatuses_Always(ci) == {200, 301, 302, 303, 307, 308, 403, 418, 429}

AcceptableStatuses(ci) ==
    {200, 301, 302, 303, 307, 308} \cup (IF ci THEN {403, 418, 429} ELSE {})

IsDoiLink(domain) == Contains(domain, DOI_ORG) \/ Contains(domain, DX_DOI_ORG)

Accessible(ci, domain, status) ==
    status \in AcceptableStatuses(ci) \/ (IsDoiLink(domain) /\ status = 418)

\* the return after a response was obtained
Responded(ci, logging, test_url, status, accessible, requests) ==
    [status_code |-> status, accessible |-> accessible, url |-> test_url,
     skipped |-> FALSE, error |-> FALSE, requests |-> requests,
     logged |-> IF ~accessible /\ logging /\ ~ci THEN "HTTP" ELSE "none"]

\* Failed reporting a failure in CI too
Failed_AlwaysFail(ci, logging, test_url) ==
    [status_code |-> NoStatus, accessible |-> FALSE, url |-> test_url,
     skipped |-> FALSE, error |-> TRUE, requests |-> <<"HEAD", "GET">>,
     logged |-> IF logging /\ ~ci THEN "CONNECTION_ERROR" ELSE "none"]

\* the return of the except branch
Failed(ci, logging, test_url) ==
    [status_code |-> NoStatus, accessible |-> ci, url |-> test_url,
     skipped |-> FALSE, error |-> TRUE, requests |-> <<"HEAD", "GET">>,
     logged |-> IF logging /\ ~ci THEN "CONNECTION_ERROR" ELSE "none"]

\* the return for a skip-listed domain in CI
Skipped(test_url) ==
    [status_code |-> NoStatus, accessible |-> TRUE, url |-> test_url,
     skipped |-> TRUE, error |-> FALSE, requests |-> <<>>, logged |-> "none"]

\* ProbeDomain that also retries with GET after a HEAD response whose status
\* is not acceptable
ProbeDomain_GetAfterStatus(ci, logging, test_url, domain, head, get) ==
    IF ci /\ SkipListed(domain) THEN Skipped(test_url)
    ELSE IF head # TransportError /\ Accessible(ci, domain, head)
    THEN Responded(ci, logging, test_url, head, TRUE, <<"HEAD">>)
    ELSE IF get # TransportError
    THEN Responded(ci, logging, test_url, get, Accessible(ci, domain, get),
                   <<"HEAD", "GET">>)
    ELSE Failed(ci, logging, test_url)

ProbeDomain(ci, logging, test_url, domain, head, get) ==
    IF ci /\ SkipListed(domain) THEN Skipped(test_url)
    ELSE IF head # TransportError
    THEN Responded(ci, logging, test_url, head, Accessible(ci, domain, head), <<"HEAD">>)
    ELSE IF get # TransportError
    THEN Responded(ci, logging, test_url, get, Accessible(ci, domain, get),
                   <<"HEAD", "GET">>)
    ELSE Failed(ci, logging, test_url)

ProbeUrl(ci, logging, test_url, head, get) ==
    ProbeDomain(ci, logging, test_url, DomainOf(test_url), head, get)

test_web_accessibility(ci, logging, url, head, get) ==
    ProbeUrl(ci, logging, BuildTestUrl(url), head, get)

(***************************************************************************)
(* test_resource                                                           *)
(***************************************************************************)
StatusOf(local_exists, web_accessible) ==
    IF local_exists \/ web_accessible THEN "PASS" ELSE "FAIL"

BaseResult(resource_url, local_exists, web_result) ==
    [result |-> [resource |-> resource_url,
                 local_exists |-> local_exists,
                 web_accessible |-> web_result.accessible,
                 web_status |-> web_result.status_code,
                 status |-> StatusOf(local_exists, web_result.accessible),
                 type |-> classify_resource(resource_url)],
     probes |-> <<web_result>>]

\* test_resource that probes only when the local lookup failed
test_resource_LocalFirst(fs, ci, logging, resource_url, head, get) ==
    IF test_local_file_exists(fs, resource_url)
    THEN [result |-> [resource |-> resource_url, local_exists |-> TRUE,
                      web_accessible |-> FALSE, web_status |-> NoStatus,
                      status |-> "PASS", type |-> classify_resource(resource_url)],
          probes |-> <<>>]
    ELSE BaseResult(resource_url, FALSE,
                    test_web_accessibility(ci, logging, resource_url, head, get))

test_resource(fs, ci, logging, resource_url, head, get) ==
    BaseResult(resource_url,
               test_local_file_exists(fs, resource_url),
               test_web_accessibility(ci, logging, resource_url, head, get))

(***************************************************************************)
(* _resolve_local_with_context                                             *)
(***************************************************************************)
NoPath == <<>>

Unresolved == [ok |-> FALSE, path |-> NoPath]

UniqueMatch(matches) == Cardinality(matches) = 1

ResolveMatches(matches) ==
    IF UniqueMatch(matches) THEN [ok |-> TRUE, path |-> CHOOSE m \in matches : TRUE]
    ELSE Unresolved

ResolveCandidate(fs, core_part, candidate) ==
    IF exists(fs, candidate) THEN [ok |-> TRUE, path |-> candidate]
    ELSE IF ~Contains(core_part, <<"/">>) THEN ResolveMatches(rglob(fs, core_part))
    ELSE Unresolved

ResolveCore(fs, core_part, referer_dir) ==
    ResolveCandidate(fs, core_part,
                     resolve(JoinPath(local_path \o referer_dir, core_part)))

_resolve_local_with_context(fs, resource_url, referer_dir) ==
    IF IsExternal(resource_url) THEN Unresolved
    ELSE ResolveCore(fs, CleanPath(resource_url), referer_dir)

(***************************************************************************)
(* test_resource_with_context.  head2 and get2 are the server's answers to *)
(* the second probe, when one is made.  The field local of the outcome     *)
(* records what the local resolution did.                                  *)
(***************************************************************************)
\* referer_dir.as_posix()
RECURSIVE JoinParts(_)
JoinParts(parts) ==
    IF parts = <<>> THEN <<>>
    ELSE IF Len(parts) = 1 THEN parts[1]
    ELSE parts[1] \o <<"/">> \o JoinParts(Tail(parts))

as_posix(parts) == IF parts = <<>> THEN <<".">> ELSE JoinParts(parts)

CandidateUrl(referer_dir, path_part) ==
    Replace(base_url \o <<"/">> \o StripSlash(as_posix(referer_dir))
                     \o <<"/">> \o path_part,
            <<"/", "/">>, <<"/">>)

\* FinalStatus with the anchor re-check dropped from the final status
FinalStatus_NoAnchor(local_ok, anchor_ok, web_accessible) ==
    IF local_ok \/ web_accessible THEN "PASS" ELSE "FAIL"

FinalStatus(local_ok, anchor_ok, web_accessible) ==
    IF (local_ok /\ anchor_ok) \/ web_accessible THEN "PASS" ELSE "FAIL"

\* the anchor re-check on the resolved path
AnchorOkAt(fs, fragment, path_part, resolved_path) ==
    IF fragment # <<>> /\ EndsWith(path_part, DOT_HTML)
    THEN AnchorIn(fs, resolved_path, fragment)
    ELSE TRUE

AnchorOk(fs, resource_url, resolved_path) ==
    AnchorOkAt(fs, FragmentOf(resource_url), Before(resource_url, <<"#">>),
               resolved_path)

\* hasattr(self, 'logger'): no code of the class sets the attribute
HasLogger == FALSE

\* whether test_local_file_exists called self.logger.log_file_failure
FileLogged(resource_url, direct) ==
    HasLogger /\ ~IsExternal(resource_url) /\ ~direct

LocalTrace(resource_url, referer_dir, direct, fallback, r, anchor_ok) ==
    [resource |-> resource_url, referer_dir |-> referer_dir, direct |-> direct,
     fallback |-> fallback, local_ok |-> r.ok, resolved_path |-> r.path,
     anchor_ok |-> anchor_ok, file_logged |-> FileLogged(resource_url, direct)]

\* return base_result
ReturnBase(resource_url, referer_dir, base, fallback) ==
    [result |-> base.result, probes |-> base.probes,
     local |-> LocalTrace(resource_url, referer_dir, base.result.local_exists,
                          fallback, Unresolved, TRUE)]

\* the dict returned after a successful context-aware resolution; retry holds
\* the second probe when the first was not accessible
ReturnResolved(resource_url, referer_dir, base, r, anchor_ok, retry) ==
    [result |-> [resource |-> resource_url,
                 local_exists |-> r.ok /\ anchor_ok,
                 web_accessible |-> IF retry # <<>> THEN retry[1].accessible
                                    ELSE base.result.web_accessible,
                 web_status |-> IF retry # <<>> THEN retry[1].status_code
                                ELSE base.result.web_status,
                 status |-> FinalStatus(r.ok, anchor_ok,
                                IF retry # <<>> THEN retry[1].accessible
                                ELSE base.result.web_accessible),
                 type |-> classify_resource(resource_url)],
     probes |-> base.probes \o retry,
     local |-> LocalTrace(resource_url, referer_dir, base.result.local_exists,
                          TRUE, r, anchor_ok)]

WithResolution(fs, ci, logging, resource_url, referer_dir, base, r, head2, get2) ==
    IF r.ok
    THEN ReturnResolved(resource_url, referer_dir, base, r,
             AnchorOk(fs, resource_url, r.path),
             IF ~base.result.web_accessible
             THEN <<test_web_accessibility(ci, logging,
                        CandidateUrl(referer_dir, Before(resource_url, <<"#">>)),
                        head2, get2)>>
             ELSE <<>>)
    ELSE ReturnBase(resource_url, referer_dir, base, TRUE)

WithContext(fs, ci, logging, resource_url, referer_dir, base, head2, get2) ==
    IF base.result.status = "PASS"
    THEN ReturnBase(resource_url, referer_dir, base, FALSE)
    ELSE IF ~base.result.local_exists
    THEN WithResolution(fs, ci, logging, resource_url, referer_dir, base,
             _resolve_local_with_context(fs, resource_url, referer_dir),
             head2, get2)
    ELSE ReturnBase(resource_url, referer_dir, base, FALSE)

test_resource_with_context(fs, ci, logging, resource_url, referer_dir, head, get, head2, get2) ==
    WithContext(fs, ci, logging, resource_url, referer_dir,
                test_resource(fs, ci, logging, resource_url, head, get),
                head2, get2)

\* whether test_resource_with_context makes the second probe
SecondProbe(fs, ci, resource_url, referer_dir, head, get) ==
    /\ test_resource(fs, ci, FALSE, resource_url, head, get).result.status = "FAIL"
    /\ _resolve_local_with_context(fs, resource_url, referer_dir).ok

(***************************************************************************)
(* find_html_files and extract_resources_from_html.  The markup of a       *)
(* document is the set of its elements [tag, attr, value].                 *)
(***************************************************************************)
StartsWithDot(part) == StartsWith(part, <<".">>)

\* rglob("*.html") yields every entry, file or directory, with that suffix
find_html_files(fs) ==
    {e \in Entries(fs) : /\ EndsWith(e[Len(e)], DOT_HTML)
                         /\ \A k \in 1..Len(e) : ~StartsWithDot(e[k])}

resource_selectors == {<<"link", "href">>, <<"script", "src">>,
                       <<"img", "src">>, <<"a", "href">>}

Excluded(resource_url) == \E x \in ExcludedPrefixes : StartsWith(resource_url, x)

\* the try block: the references of the elements the selectors match
ExtractElements(elements) ==
    {Strip(e.value) : e \in {x \in elements :
        /\ <<x.tag, x.attr>> \in resource_selectors
        /\ x.value # <<>>
        /\ Strip(x.value) # <<>>
        /\ ~Excluded(Strip(x.value))}}

\* except Exception: print the error and return set()
extract_resources_from_html(html_file) ==
    IF html_file.readable THEN ExtractElements(html_file.elements) ELSE {}

(***************************************************************************)
(* main: the exit status computed from the results                         *)
(***************************************************************************)
\* CountsAsCritical without the exemption of external references in CI
CountsAsCritical_NoExemption(ci, r) == r.status = "FAIL"

CountsAsCritical(ci, r) ==
    /\ ~(~r.local_exists /\ IsExternal(r.resource) /\ ci)
    /\ r.status = "FAIL"

CriticalCount(ci, list) == Cardinality({i \in 1..Len(list) : CountsAsCritical(ci, list[i])})

\* for resource_type in results: if resource_type in ['PDF','HTML','CSS','JS']
RECURSIVE CriticalSum(_, _, _)
CriticalSumFrom(ci, res, types, t) ==
    CriticalCount(ci, res[t]) + CriticalSum(ci, res, types \ {t})

CriticalSum(ci, res, types) ==
    IF types = {} THEN 0
    ELSE CriticalSumFrom(ci, res, types, CHOOSE x \in types : TRUE)

critical_failures(ci, res) == CriticalSum(ci, res, CriticalTypes)

\* ExitFor with a non-zero default outside CI
ExitFor_NonZero(ci, failures) == IF ci /\ failures = 0 THEN 0 ELSE 1

ExitFor(ci, failures) ==
    IF ci /\ failures = 0 THEN 0
    ELSE IF failures > 0 THEN 1 ELSE 0

ExitStatus(ci, res) == ExitFor(ci, critical_failures(ci, res))

(***************************************************************************)
(* generate_report                                                         *)
(***************************************************************************)
CountStatus(list, st) == Cardinality({i \in 1..Len(list) : list[i].status = st})

RECURSIVE SumOver(_, _, _)
SumOverFrom(res, types, st, t) ==
    (IF st = "ANY" THEN Len(res[t]) ELSE CountStatus(res[t], st))
    + SumOver(res, types \ {t}, st)

SumOver(res, types, st) ==
    IF types = {} THEN 0
    ELSE SumOverFrom(res, types, st, CHOOSE x \in types : TRUE)

SummaryOf(total_resources, total_passed) ==
    [total |-> total_resources, passed |-> total_passed,
     failed |-> total_resources - total_passed]

Summary(res) ==
    SummaryOf(SumOver(res, ResourceTypes, "ANY"), SumOver(res, ResourceTypes, "PASS"))

\* the keys of results in the order of sorted(results.items())
TypeOrder == <<"CSS", "HTML", "IMAGES", "JS", "OTHER", "PDF", "TEXT">>

HasResults(b) == b.total > 0

\* one line of the breakdown by file type; results holds a key only for a
\* type with at least one result
BreakdownLine(t, list) ==
    [type |-> t, passed |-> CountStatus(list, "PASS"), total |-> Len(list)]

Breakdown(res) ==
    SelectSeq([k \in 1..Len(TypeOrder) |-> BreakdownLine(TypeOrder[k], res[TypeOrder[k]])],
              HasResults)

IsFail(r) == r.status = "FAIL"

\* the reasons printed for a failed resource; a web_status of None prints no
\* status
Reasons(r) ==
    (IF ~r.local_exists THEN <<[text |-> "not found locally", status |-> NoStatus]>>
     ELSE <<>>)
    \o (IF ~r.web_accessible THEN <<[text |-> "web error", status |-> r.web_status]>>
        ELSE <<>>)

Listed(t, r) == [type |-> t, resource |-> r.resource, reasons |-> Reasons(r)]

\* for resource in failed_resources[:5]
PerTypeLimit == 5

\* if failed_count >= 10: break
SampleLimit == 10

Min(a, b) == IF a <= b THEN a ELSE b

\* TakeOf without the limit on the whole sample
TakeOf_NoTotalLimit(t, failed_resources, failed_count) ==
    [i \in 1..Min(Len(failed_resources), PerTypeLimit) |-> Listed(t, failed_resources[i])]

\* the lines printed for one type, failed_count lines being printed already
TakeOf(t, failed_resources, failed_count) ==
    IF failed_resources # <<>> /\ failed_count < SampleLimit
    THEN [i \in 1..Min(Min(Len(failed_resources), PerTypeLimit),
                       SampleLimit - failed_count) |->
             Listed(t, failed_resources[i])]
    ELSE <<>>

\* the failed resources printed, type after type from TypeOrder[k] on
RECURSIVE SampleFrom(_, _, _)
SampleFrom(res, k, printed) ==
    IF k > Len(TypeOrder) THEN printed
    ELSE SampleFrom(res, k + 1,
             printed \o TakeOf(TypeOrder[k], SelectSeq(res[TypeOrder[k]], IsFail),
                               Len(printed)))

FailureSample(res) == SampleFrom(res, 1, <<>>)

\* what generate_report prints: summary statistics, breakdown by file type
\* and failed resources
ReportOf(summary, breakdown, sample) ==
    [total |-> summary.total, passed |-> summary.passed, failed |-> summary.failed,
     breakdown |-> breakdown, sample |-> sample]

generate_report(res) == ReportOf(Summary(res), Breakdown(res), FailureSample(res))

(***************************************************************************)
(* The sites, documents and remote answers the model explores              *)
(***************************************************************************)
\* p.html, s/d.html, c/a.css, s/q.jpg, i/l.png, x/t.txt, y/t.txt, a/docs, b/docs/m.pdf
Site1 == {
    [path |-> << <<"p",".","h","t","m","l">> >>,
     text |-> <<"<","a"," ","i","d","=","\"","s","1","\"",">">>],
    [path |-> << <<"s">>, <<"d",".","h","t","m","l">> >>,
     text |-> <<"<","a"," ","n","a","m","e","=","\"","s","1","\"",">">>],
    [path |-> << <<"c">>, <<"a",".","c","s","s">> >>,
     text |-> <<>>],
    [path |-> << <<"s">>, <<"q",".","j","p","g">> >>,
     text |-> <<>>],
    [path |-> << <<"i">>, <<"l",".","p","n","g">> >>,
     text |-> <<>>],
    [path |-> << <<"x">>, <<"t",".","t","x","t">> >>,
     text |-> <<>>],
    [path |-> << <<"y">>, <<"t",".","t","x","t">> >>,
     text |-> <<>>],
    [path |-> << <<"a">>, <<"d","o","c","s">> >>,
     text |-> <<>>],
    [path |-> << <<"b">>, <<"d","o","c","s">>, <<"m",".","p","d","f">> >>,
     text |-> <<>>]}

\* p.html, s/d.html, c/a.css, x/t.txt, b/docs/m.pdf, h.htm, .g/k.html,
\* u.html/f.txt (u.html is a directory), https:/e.com/m.js
Site2 == {
    [path |-> << <<"h",".","h","t","m">> >>,
     text |-> <<>>],
    [path |-> << <<".","g">>, <<"k",".","h","t","m","l">> >>,
     text |-> <<>>],
    [path |-> << <<"u",".","h","t","m","l">>, <<"f",".","t","x","t">> >>,
     text |-> <<>>],
    [path |-> << <<"h","t","t","p","s",":">>, <<"e",".","c","o","m">>, <<"m",".","j","s">> >>,
     text |-> <<>>],
    [path |-> << <<"p",".","h","t","m","l">> >>,
     text |-> <<"<","a"," ","i","d","=","\"","s","2","\"",">">>],
    [path |-> << <<"s">>, <<"d",".","h","t","m","l">> >>,
     text |-> <<>>],
    [path |-> << <<"c">>, <<"a",".","c","s","s">> >>,
     text |-> <<>>],
    [path |-> << <<"x">>, <<"t",".","t","x","t">> >>,
     text |-> <<>>],
    [path |-> << <<"b">>, <<"d","o","c","s">>, <<"m",".","p","d","f">> >>,
     text |-> <<>>]}

\* p.html with <a id="s2"> and s/p.html with <a data-id="s3" id="s1">
Site3 == {
    [path |-> << <<"p",".","h","t","m","l">> >>,
     text |-> <<"<","a"," ","i","d","=","\"","s","2","\"",">">>],
    [path |-> << <<"s">>, <<"p",".","h","t","m","l">> >>,
     text |-> <<"<","a"," ","d","a","t","a","-","i","d","=","\"","s","3","\""," ",
                "i","d","=","\"","s","1","\"",">">>]}

\* p.html; p.html#s1; p.html#s2; /p.html; c/a.css; /c/a.css; a.css; q.jpg; s/q.jpg; t.txt; docs; d.html#s1; d.html#s2; ../c/a.css; https://doi.org/x.pdf; https://e.com/m.js; m.pdf; n.png; p.html?v=1#s2; d.html?v=1#s2; c; ?v=1; u.html#s1; h.htm#s1; p.html#s3
RefValues == {
    <<"h",".","h","t","m","#","s","1">>,
    <<"p",".","h","t","m","l","#","s","3">>,
    <<"u",".","h","t","m","l","#","s","1">>,
    <<"p",".","h","t","m","l">>,
    <<"p",".","h","t","m","l","#","s","1">>,
    <<"p",".","h","t","m","l","#","s","2">>,
    <<"/","p",".","h","t","m","l">>,
    <<"c","/","a",".","c","s","s">>,
    <<"/","c","/","a",".","c","s","s">>,
    <<"a",".","c","s","s">>,
    <<"q",".","j","p","g">>,
    <<"s","/","q",".","j","p","g">>,
    <<"t",".","t","x","t">>,
    <<"d","o","c","s">>,
    <<"d",".","h","t","m","l","#","s","1">>,
    <<"d",".","h","t","m","l","#","s","2">>,
    <<".",".","/","c","/","a",".","c","s","s">>,
    <<"h","t","t","p","s",":","/","/","d","o","i",".","o","r","g","/","x",".","p","d","f">>,
    <<"h","t","t","p","s",":","/","/","e",".","c","o","m","/","m",".","j","s">>,
    <<"m",".","p","d","f">>,
    <<"n",".","p","n","g">>,
    <<"p",".","h","t","m","l","?","v","=","1","#","s","2">>,
    <<"d",".","h","t","m","l","?","v","=","1","#","s","2">>,
    <<"c">>,
    <<"?","v","=","1">>}

\* ../p.html#s1; n.png; https://doi.org/x.pdf; o.png
RunValues == {
    <<"o",".","p","n","g">>,
    <<".",".","/","p",".","h","t","m","l","#","s","1">>,
    <<"n",".","p","n","g">>,
    <<"h","t","t","p","s",":","/","/","d","o","i",".","o","r","g","/","x",".","p","d","f">>}

V_top == <<"#","t","o","p">>

V_mail == <<"m","a","i","l","t","o",":","a">>

V_padded == <<" ","p",".","h","t","m","l"," ">>

V_js == <<"j","a","v","a","s","c","r","i","p","t",":","x">>

V_tel == <<"t","e","l",":","1">>

\* a file name of NAME_MAX + 1 characters
Repeat(c, n) == [i \in 1..n |-> c]

V_long == Repeat("A", NAME_MAX + 1)

V_MAILTO == <<"M","A","I","L","T","O",":","a">>


\* https://www.ieee.org/a.pdf; http://DX.DOI.ORG/b; https://arxiv.org/abs/1; https://notdoi.org.e.com/p; https://e.com/doi.org/q
ExternalUrls == {
    <<"h","t","t","p","s",":","/","/","w","w","w",".","i","e","e","e",".","o","r","g","/","a",".","p","d","f">>,
    <<"h","t","t","p",":","/","/","D","X",".","D","O","I",".","O","R","G","/","b">>,
    <<"h","t","t","p","s",":","/","/","a","r","x","i","v",".","o","r","g","/","a","b","s","/","1">>,
    <<"h","t","t","p","s",":","/","/","n","o","t","d","o","i",".","o","r","g",".","e",".","c","o","m","/","p">>,
    <<"h","t","t","p","s",":","/","/","e",".","c","o","m","/","d","o","i",".","o","r","g","/","q">>}

Sites == {Site1, Site2, Site3}

Anchor(v) == [tag |-> "a", attr |-> "href", value |-> v]

RefElements ==
    {Anchor(v) : v \in RefValues}
    \cup {Anchor(V_top), Anchor(V_mail), Anchor(V_padded), Anchor(V_js), Anchor(V_tel), Anchor(V_MAILTO),
          Anchor(V_long),
          [tag |-> "img", attr |-> "href", value |-> <<"n",".","p","n","g">>],
          [tag |-> "img", attr |-> "src", value |-> <<"q",".","j","p","g">>],
          [tag |-> "a", attr |-> "href", value |-> <<>>]}

\* the elements of a run: one reference is held by two of them
RunElements ==
    {Anchor(v) : v \in RunValues}
    \cup {[tag |-> "img", attr |-> "src", value |-> <<"n",".","p","n","g">>]}

\* total number of elements in the documents of a run
MaxRefs == 2

\* what a server does with a request in the crawl
Answers == {200, 404, TransportError}

\* the sets of at most k elements of S
RECURSIVE UpTo(_, _)
Grow(S, smaller) == smaller \cup {T \cup {x} : T \in smaller, x \in S}

UpTo(S, k) == IF k = 0 THEN {{}} ELSE Grow(S, UpTo(S, k - 1))

\* the orders in which rglob can yield a set of paths
RECURSIVE Orders(_)
Orders(S) ==
    IF S = {} THEN {<<>>}
    ELSE UNION {{<<x>> \o o : o \in Orders(S \ {x})} : x \in S}

(***************************************************************************)
(* State                                                                   *)
(***************************************************************************)
VARIABLES
    IS_CI,                  \* GITHUB_ACTIONS == 'true'
    LOCAL_LOGGING_ENABLED,  \* local_test_logger imported
    site,                   \* the files below self.local_path
    root_exists,            \* self.local_path is an existing directory
    markup,                 \* document path -> its elements
    pc,                     \* position in main / run_comprehensive_test
    html_files,             \* documents still to analyze, in rglob order
    processed,              \* documents handed to extract_resources_from_html
    referer_dir,            \* relative_path.parent of the current document
    queue,                  \* sorted(resources) of the current document, rest
    results,                \* resource type -> list of result dicts
    last,                   \* what the last test_resource_with_context did
    answers,                \* what the servers answered in that call
    report,                 \* summary statistics printed by generate_report
    exit_code               \* argument of sys.exit

vars == <<IS_CI, LOCAL_LOGGING_ENABLED, site, root_exists, markup, pc, html_files,
          processed, referer_dir, queue, results, last, answers, report, exit_code>>

NoLocal == [resource |-> <<>>, referer_dir |-> <<>>, direct |-> FALSE,
            fallback |-> FALSE, local_ok |-> FALSE, resolved_path |-> NoPath,
            anchor_ok |-> TRUE, file_logged |-> FALSE]

NoLast == [result |-> [resource |-> <<>>, local_exists |-> FALSE,
                       web_accessible |-> FALSE, web_status |-> NoStatus,
                       status |-> "NONE", type |-> "OTHER"],
           probes |-> <<>>, local |-> NoLocal]

NoReport == [total |-> 0, passed |-> 0, failed |-> 0, breakdown |-> <<>>, sample |-> <<>>]

NoExit == -1

\* the state after construction: whether the site root exists, the files
\* below it and the content of its documents
StartAt(root, fs, content_of) ==
    /\ IS_CI \in BOOLEAN
    /\ LOCAL_LOGGING_ENABLED \in BOOLEAN
    /\ IS_CI => ~LOCAL_LOGGING_ENABLED
    /\ site = fs
    /\ root_exists = root
    /\ markup = content_of
    /\ pc = "start"
    /\ html_files = <<>>
    /\ processed = <<>>
    /\ referer_dir = <<>>
    /\ queue = <<>>
    /\ results = [t \in ResourceTypes |-> <<>>]
    /\ last = NoLast
    /\ answers = <<>>
    /\ report = NoReport
    /\ exit_code = NoExit

\* an existing site root
Start(fs, content_of) == StartAt(TRUE, fs, content_of)

\* a document that open() and BeautifulSoup read, with its elements
Readable(elements) == [readable |-> TRUE, elements |-> elements]

\* a document on which open() or the parser raises
Unreadable == [readable |-> FALSE, elements |-> {}]

\* the content of a site in which the document doc holds the element e; a
\* directory named like a document cannot be opened
OneElement(fs, doc, e, readable) ==
    [d \in find_html_files(fs) |->
        IF ~IsFile(fs, local_path \o d) THEN Unreadable
        ELSE IF d # doc THEN Readable({})
        ELSE IF readable THEN Readable({e}) ELSE Unreadable]

\* where the elements of a run stand: the external link and the link to
\* o.png in the document at the root, the two elements naming n.png in the
\* document below s/
RunPlacements ==
    {pl \in find_html_files(Site1) \X RunElements :
        /\ StartsWith(pl[2].value, <<"h","t","t","p">>) => Len(pl[1]) = 1
        /\ pl[2].value = <<"o",".","p","n","g">> => Len(pl[1]) = 1
        /\ pl[2].value = <<"n",".","p","n","g">> => Len(pl[1]) = 2}

\* a site whose documents hold at most MaxRefs elements in total
Init ==
    \E chosen \in UpTo(RunPlacements, MaxRefs) :
        Start(Site1, [d \in find_html_files(Site1) |->
                         Readable({e \in RunElements : <<d, e>> \in chosen})])

\* a site in which one document holds one element, or a missing site root
InitRef ==
    \/ \E fs \in Sites : \E doc \in find_html_files(fs) : \E e \in RefElements :
       \E readable \in BOOLEAN :
          Start(fs, OneElement(fs, doc, e, readable))
    \/ StartAt(FALSE, {}, <<>>)

(***************************************************************************)
(* run_comprehensive_test                                                  *)
(***************************************************************************)
FindHtmlFiles ==
    /\ pc = "start"
    /\ html_files' \in Orders(IF root_exists THEN find_html_files(site) ELSE {})
    /\ pc' = "crawl"
    /\ UNCHANGED <<IS_CI, LOCAL_LOGGING_ENABLED, site, root_exists, markup, referer_dir,
                   processed, queue, results, last, answers, report, exit_code>>

\* ExtractNext that drops the references an earlier document already held
ExtractNext_GlobalDedup ==
    /\ pc = "crawl"
    /\ queue = <<>>
    /\ html_files # <<>>
    /\ referer_dir' = Parent(Head(html_files))
    /\ queue' = Sorted({ref \in extract_resources_from_html(markup[Head(html_files)]) :
                           \A t \in ResourceTypes : \A i \in 1..Len(results[t]) :
                               results[t][i].resource # ref})
    /\ processed' = Append(processed, Head(html_files))
    /\ html_files' = Tail(html_files)
    /\ UNCHANGED <<IS_CI, LOCAL_LOGGING_ENABLED, site, root_exists, markup, pc,
                   results, last, answers, report, exit_code>>

\* for html_file in html_files: extract and sort its resources
ExtractNext ==
    /\ pc = "crawl"
    /\ queue = <<>>
    /\ html_files # <<>>
    /\ referer_dir' = Parent(Head(html_files))
    /\ queue' = Sorted(extract_resources_from_html(markup[Head(html_files)]))
    /\ processed' = Append(processed, Head(html_files))
    /\ html_files' = Tail(html_files)
    /\ UNCHANGED <<IS_CI, LOCAL_LOGGING_ENABLED, site, root_exists, markup, pc,
                   results, last, answers, report, exit_code>>

\* results.setdefault(resource_type, []).append(result)
Record(t) ==
    /\ last' = t
    /\ results' = [results EXCEPT ![t.result.type] = Append(@, t.result)]

\* the answers to the second probe, when one is made
Answers2(second, first) ==
    IF second /\ first = TransportError THEN Answers ELSE {TransportError}

TestWith(head, get, second) ==
    \E head2 \in Answers2(second, TransportError) :
    \E get2 \in Answers2(second, head2) :
    \E t \in {test_resource_with_context(site, IS_CI, LOCAL_LOGGING_ENABLED,
                   Head(queue), referer_dir, head, get, head2, get2)} :
        /\ Record(t)
        /\ answers' = <<head, get, head2, get2>>

\* the OSError of full_path.exists() leaves run_comprehensive_test and main:
\* the interpreter prints the traceback and exits with status 1
Raise ==
    /\ ExistsCanRaise(Head(queue))
    /\ pc' = "aborted"
    /\ exit_code' = 1
    /\ UNCHANGED <<queue, results, last, answers>>

\* the call returns and the result is recorded
Return ==
    /\ \E head \in Answers :
       \E get \in Answers2(TRUE, head) :
       \E second \in {SecondProbe(site, IS_CI, Head(queue), referer_dir, head, get)} :
          TestWith(head, get, second)
    /\ queue' = Tail(queue)
    /\ UNCHANGED <<pc, exit_code>>

\* for resource in sorted(resources): test it and record the result
TestNext ==
    /\ pc = "crawl"
    /\ queue # <<>>
    /\ Return \/ Raise
    /\ UNCHANGED <<IS_CI, LOCAL_LOGGING_ENABLED, site, root_exists, markup, html_files,
                   processed, referer_dir, report>>

GenerateReport ==
    /\ pc = "crawl"
    /\ queue = <<>>
    /\ html_files = <<>>
    /\ report' = generate_report(results)
    /\ pc' = "reported"
    /\ UNCHANGED <<IS_CI, LOCAL_LOGGING_ENABLED, site, root_exists, markup, html_files,
                   processed, referer_dir, queue, results, last, answers, exit_code>>

\* main, after run_comprehensive_test returned
Exit ==
    /\ pc = "reported"
    /\ exit_code' = ExitStatus(IS_CI, results)
    /\ pc' = "done"
    /\ UNCHANGED <<IS_CI, LOCAL_LOGGING_ENABLED, site, root_exists, markup, html_files,
                   processed, referer_dir, queue, results, last, answers, report>>

Next == FindHtmlFiles \/ ExtractNext \/ TestNext \/ GenerateReport \/ Exit

Spec == Init /\ [][Next]_vars

SpecRef == InitRef /\ [][Next]_vars

(***************************************************************************)
(* Probing alone: test_web_accessibility applied to one URL                *)
(***************************************************************************)
\* the second-probe URLs that test_resource_with_context builds
CandidateUrls ==
    {CandidateUrl(dir, Before(v, <<"#">>)) : dir \in {<<>>, << <<"s">> >>}, v \in RefValues}

ProbeUrls == RefValues \cup CandidateUrls \cup ExternalUrls

InitProbe ==
    /\ IS_CI \in BOOLEAN
    /\ LOCAL_LOGGING_ENABLED \in BOOLEAN
    /\ IS_CI => ~LOCAL_LOGGING_ENABLED
    /\ site = Site1
    /\ root_exists = TRUE
    /\ markup = [d \in find_html_files(Site1) |-> Readable({})]
    /\ pc = "probe"
    /\ html_files = <<>>
    /\ processed = <<>>
    /\ referer_dir = <<>>
    /\ queue = <<>>
    /\ results = [t \in ResourceTypes |-> <<>>]
    /\ last = NoLast
    /\ answers = <<>>
    /\ report = NoReport
    /\ exit_code = NoExit

Probe ==
    /\ pc = "probe"
    /\ \E url \in ProbeUrls :
       \E head \in Statuses \cup {TransportError} :
       \E get \in (IF head = TransportError THEN Statuses \cup {TransportError}
                   ELSE {TransportError}) :
          /\ last' = [NoLast EXCEPT !.probes =
                        <<test_web_accessibility(IS_CI, LOCAL_LOGGING_ENABLED,
                                                 url, head, get)>>]
          /\ answers' = <<head, get>>
    /\ pc' = "probed"
    /\ UNCHANGED <<site, root_exists, processed, IS_CI, LOCAL_LOGGING_ENABLED, markup, html_files,
                   referer_dir, queue, results, report, exit_code>>

NextProbe == Probe

SpecProbe == InitProbe /\ [][NextProbe]_vars

(***************************************************************************)
(* Classifying alone: classify_resource applied to one reference           *)
(***************************************************************************)
ClassifyPrefixes == {<<>>, <<"/">>, <<"h","t","t","p","s",":","/","/","e",".","c","o","m","/">>, <<"H","T","T","P","S",":","/","/","E",".","C","O","M","/","d","/">>}

ClassifyStems == {<<"b">>, <<"x",".","j","s","/","c">>}

ClassifyExtensions == {
    <<"p","d","f">>,
    <<"p","n","g">>,
    <<"j","p","g">>,
    <<"j","p","e","g">>,
    <<"g","i","f">>,
    <<"s","v","g">>,
    <<"i","c","o">>,
    <<"c","s","s">>,
    <<"j","s">>,
    <<"h","t","m","l">>,
    <<"h","t","m">>,
    <<"t","x","t">>,
    <<"x","m","l">>,
    <<"j","s","o","n">>,
    <<"m","d">>,
    <<"j","s","x">>,
    <<"p","h","p">>,
    <<"j","s",".","m","a","p">>,
    <<"P","D","F">>,
    <<"P","N","G">>,
    <<"J","P","G">>,
    <<"J","P","E","G">>,
    <<"G","I","F">>,
    <<"S","V","G">>,
    <<"I","C","O">>,
    <<"C","S","S">>,
    <<"J","S">>,
    <<"H","T","M","L">>,
    <<"H","T","M">>,
    <<"T","X","T">>,
    <<"X","M","L">>,
    <<"J","S","O","N">>,
    <<"M","D">>,
    <<"J","S","X">>,
    <<"P","H","P">>,
    <<"J","S",".","M","A","P">>,
    <<"P","d","f">>,
    <<"H","t","M","l">>}

ClassifySuffixes == {<<>>, <<"?","x","=","1">>, <<"#","y">>, <<"?","x","=","1","#","y">>, <<"?","f","=","a",".","c","s","s">>,
                     <<"#","z",".","p","d","f">>}

\* references with an extension, references without one, and URLs without a path
ClassifyRefs ==
    {pre \o stem \o <<".">> \o ext \o suf :
        pre \in ClassifyPrefixes, stem \in ClassifyStems,
        ext \in ClassifyExtensions, suf \in ClassifySuffixes}
    \cup {pre \o stem \o suf :
        pre \in ClassifyPrefixes, stem \in ClassifyStems, suf \in ClassifySuffixes}
    \cup {<<"h","t","t","p","s",":","/","/","x",".","p","d","f">>, <<"h","t","t","p","s",":","/","/","e",".","c","o","m","?","a",".","j","s">>, <<"h","t","t","p","s",":","/","/","e",".","c","o","m","#","a",".","c","s","s">>}

InitClassify ==
    /\ IS_CI \in BOOLEAN
    /\ LOCAL_LOGGING_ENABLED = FALSE
    /\ site = Site1
    /\ root_exists = TRUE
    /\ markup = [d \in find_html_files(Site1) |-> Readable({})]
    /\ pc = "classify"
    /\ html_files = <<>>
    /\ processed = <<>>
    /\ referer_dir = <<>>
    /\ queue \in {<<r>> : r \in ClassifyRefs}
    /\ results = [t \in ResourceTypes |-> <<>>]
    /\ last = NoLast
    /\ answers = <<>>
    /\ report = NoReport
    /\ exit_code = NoExit

Classify ==
    /\ pc = "classify"
    /\ last' = [NoLast EXCEPT !.result.resource = Head(queue),
                              !.result.type = classify_resource(Head(queue))]
    /\ pc' = "classified"
    /\ UNCHANGED <<site, root_exists, processed, IS_CI, LOCAL_LOGGING_ENABLED, markup,
                   html_files, referer_dir, queue, results, answers, report, exit_code>>

NextClassify == Classify

SpecClassify == InitClassify /\ [][NextClassify]_vars

(***************************************************************************)
(* Reporting alone: generate_report and main applied to a results dict     *)
(***************************************************************************)
\* the number of results of one type in the results handed to generate_report
MaxResults == 7

DigitChars == <<"1","2","3","4","5","6","7","8","9">>

\* an extension that classify_resource maps to the type
ExtensionFor(t) ==
    CASE t = "PDF" -> <<".","p","d","f">>
      [] t = "IMAGES" -> <<".","p","n","g">>
      [] t = "CSS" -> <<".","c","s","s">>
      [] t = "JS" -> <<".","j","s">>
      [] t = "HTML" -> <<".","h","t","m","l">>
      [] t = "TEXT" -> <<".","t","x","t">>
      [] OTHER -> <<>>

\* the k-th result of a type: the second one is a PASS by local resolution,
\* the others are FAIL, with and without an HTTP status
ResultOf(resource_url, k) ==
    [resource |-> resource_url,
     local_exists |-> (k = 2),
     web_accessible |-> FALSE,
     web_status |-> IF k % 2 = 1 THEN 404 ELSE NoStatus,
     status |-> StatusOf(k = 2, FALSE),
     type |-> classify_resource(resource_url)]

\* the first reference of a type is external, the others are not
ResourceOf(t, k) ==
    (IF k = 1 THEN <<"h","t","t","p","s",":","/","/","e",".","c","o","m","/">> ELSE <<>>)
    \o <<"f", DigitChars[k]>> \o ExtensionFor(t)

ResultsOfType(t, n) == [k \in 1..n |-> ResultOf(ResourceOf(t, k), k)]

InitReport ==
    /\ IS_CI \in BOOLEAN
    /\ LOCAL_LOGGING_ENABLED = FALSE
    /\ site = Site1
    /\ root_exists = TRUE
    /\ markup = [d \in find_html_files(Site1) |-> Readable({})]
    /\ pc = "crawl"
    /\ html_files = <<>>
    /\ processed = <<>>
    /\ referer_dir = <<>>
    /\ queue = <<>>
    /\ \E n \in [ResourceTypes -> {0, 2, MaxResults}] :
          results = [t \in ResourceTypes |-> ResultsOfType(t, n[t])]
    /\ last = NoLast
    /\ answers = <<>>
    /\ report = NoReport
    /\ exit_code = NoExit

NextReport == GenerateReport \/ Exit

SpecReport == InitReport /\ [][NextReport]_vars

(***************************************************************************)
(* Properties                                                              *)
(***************************************************************************)
\* a test_resource_with_context call has returned
Tested == last.result.status \in {"PASS", "FAIL"}

\* the last probe of that call
LastProbe == last.probes[Len(last.probes)]

\* every result dict recorded so far
AllResults == UNION {{results[t][i] : i \in 1..Len(results[t])} : t \in ResourceTypes}

\* the local resolution of the last call ended with a target whose anchor
\* check did not fail
LocalPass ==
    \/ last.local.direct
    \/ last.local.fallback /\ last.local.local_ok /\ last.local.anchor_ok

\* C1: for every (document, reference) pair the orchestrator evaluates, the
\* recorded status is PASS exactly when the reference resolved to a local
\* target whose anchor check did not fail, or the remote probe reported
\* accessible; otherwise it is FAIL.
C1_VerdictFormula ==
    /\ \A r \in AllResults :
          /\ r.status \in {"PASS", "FAIL"}
          /\ r.status = "PASS" <=> (r.local_exists \/ r.web_accessible)
    /\ Tested =>
          /\ last.result.local_exists = LocalPass
          /\ last.result.web_accessible = LastProbe.accessible
          /\ last.result.status = "PASS" <=> (LocalPass \/ LastProbe.accessible)

C1_Witness ==
    /\ Tested
    /\ last.local.fallback /\ last.local.local_ok /\ last.local.anchor_ok
    /\ ~LastProbe.accessible
    /\ last.result.status = "PASS"

\* the text holds name="f" or id="f"
ElementNamed(text, f) ==
    \E attr \in {<<"n","a","m","e">>, <<"i","d">>} :
        Contains(text, attr \o <<"=", "\"">> \o f \o <<"\"">>)

\* the last call tested page.html#fragment, page.html a file in the site
\* root, from a document in the site root
RootPageCase ==
    /\ Tested
    /\ last.local.referer_dir = <<>>
    /\ HasFragment(last.result.resource)
    /\ FragmentOf(last.result.resource) # <<>>
    /\ ~Contains(last.result.resource, <<"?">>)
    /\ EndsWith(Before(last.result.resource, <<"#">>), DOT_HTML)
    /\ \E f \in site : f.path = <<Before(last.result.resource, <<"#">>)>>

RootPageText ==
    (CHOOSE f \in site : f.path = <<Before(last.result.resource, <<"#">>)>>).text

Done == pc = "done"

FailOfCriticalType(r) == r.status = "FAIL" /\ r.type \in {"PDF", "HTML", "CSS", "JS"}

FailOfOtherType(r) == r.status = "FAIL" /\ r.type \in {"IMAGES", "TEXT", "OTHER"}

ExternalReference(r) ==
    \/ StartsWith(r.resource, <<"h","t","t","p",":","/","/">>)
    \/ StartsWith(r.resource, <<"h","t","t","p","s",":","/","/">>)

OnlyOtherTypesFail ==
    /\ \E r \in AllResults : r.status = "FAIL"
    /\ \A r \in AllResults : r.status = "FAIL" => FailOfOtherType(r)

C5_AllPassExitZero ==
    (Done /\ \A r \in AllResults : r.status = "PASS") => exit_code = 0

C5_Witness ==
    /\ Done
    /\ ~IS_CI
    /\ AllResults # {}
    /\ \A r \in AllResults : r.status = "PASS"
    /\ exit_code = 0

\* the local resolution of a reference: the direct lookup, then the
\* context-aware one
LocalResolution(fs, resource_url, dir) ==
    \/ test_local_file_exists(fs, resource_url)
    \/ _resolve_local_with_context(fs, resource_url, dir).ok

\* the forms in which a reference from a document in dir can name a file
RootForm(f) == JoinParts(f.path)

SlashForm(f) == <<"/">> \o JoinParts(f.path)

ReferrerForm(f, dir) == JoinParts(SubSeq(f.path, Len(dir) + 1, Len(f.path)))

\* C6: for every file under the site root, local resolution reports
\* local_exists=true when the reference is root-relative, with or without a
\* leading '/', and when it is relative to the referring document's directory.
C6_Claim ==
    Tested =>
        \A f \in site :
            (\/ last.local.resource = RootForm(f)
             \/ last.local.resource = SlashForm(f)
             \/ /\ IsPrefix(last.local.referer_dir, f.path)
                /\ last.local.resource = ReferrerForm(f, last.local.referer_dir))
            => LocalResolution(site, last.local.resource, last.local.referer_dir)

\* the last call tested a bare file name for which neither the root-relative
\* nor the referrer-directory candidate exists
BareNameCase ==
    /\ Tested
    /\ last.local.resource # <<>>
    /\ \A i \in 1..Len(last.local.resource) : last.local.resource[i] \notin {"/", "#", "?"}
    /\ ~exists(site, local_path \o <<last.local.resource>>)
    /\ ~exists(site, local_path \o last.local.referer_dir \o <<last.local.resource>>)

FilesNamed(fs, name) == {f \in fs : f.path[Len(f.path)] = name}

\* C7: such a bare file name resolves locally if and only if exactly one
\* file with that name exists under the site root.
C7_Claim ==
    BareNameCase =>
        (_resolve_local_with_context(site, last.local.resource,
                                     last.local.referer_dir).ok
            <=> Cardinality(FilesNamed(site, last.local.resource)) = 1)

\* test_web_accessibility has returned in the probing specification
Probed == pc = "probed"

TheProbe == last.probes[1]

\* the host of the URL is a skip-listed domain or a subdomain of one
OnSkipListedDomain(url) ==
    \E d \in SKIP_DOMAINS :
        \/ DomainOf(url) = d
        \/ EndsWith(DomainOf(url), <<".">> \o d)

\* C8: for a URL on a skip-listed domain, a probe in CI returns
\* accessible=true and skipped=true and issues no request; outside CI it
\* issues at least one request.
C8_SkipList ==
    (Probed /\ OnSkipListedDomain(TheProbe.url)) =>
        IF IS_CI
        THEN TheProbe.accessible /\ TheProbe.skipped /\ TheProbe.requests = <<>>
        ELSE ~TheProbe.skipped /\ Len(TheProbe.requests) >= 1
             /\ TheProbe.requests[1] = "HEAD"

C8_Witness ==
    /\ Probed
    /\ IS_CI
    /\ OnSkipListedDomain(TheProbe.url)
    /\ TheProbe.skipped
    /\ TheProbe.requests = <<>>

C10_TransportError ==
    (Probed /\ ~TheProbe.skipped /\ answers = <<TransportError, TransportError>>) =>
        /\ TheProbe.status_code = NoStatus
        /\ TheProbe.accessible = IS_CI

C10_Witness ==
    /\ Probed
    /\ IS_CI
    /\ ~TheProbe.skipped
    /\ answers = <<TransportError, TransportError>>
    /\ TheProbe.accessible
    /\ TheProbe.requests = <<"HEAD", "GET">>

\* the number of HTTP requests the last call issued
RECURSIVE RequestsIn(_)
RequestsIn(probes) ==
    IF probes = <<>> THEN 0
    ELSE Len(Head(probes).requests) + RequestsIn(Tail(probes))

\* C11 as stated: a reference whose local resolution alone gives PASS causes
\* zero outbound HTTP requests.
C11_Original == (Tested /\ LocalPass) => RequestsIn(last.probes) = 0

\* C11 amended: a reference that the direct local lookup resolves is still
\* probed once, with a HEAD request first, and never a second time, and its
\* Verdict is PASS whatever the probe returns; a reference that only the
\* context-aware lookup resolves has been probed twice, with at least two
\* requests.
C11_Amended ==
    Tested =>
        /\ last.local.direct =>
              /\ Len(last.probes) = 1
              /\ RequestsIn(last.probes) \in {1, 2}
              /\ last.probes[1].requests[1] = "HEAD"
              /\ last.result.status = "PASS"
        /\ (last.local.fallback /\ last.local.local_ok) =>
              /\ Len(last.probes) = 2
              /\ RequestsIn(last.probes) >= 2

C11_Witness ==
    /\ Tested
    /\ last.local.direct
    /\ ~last.probes[1].accessible
    /\ RequestsIn(last.probes) = 2
    /\ last.result.status = "PASS"

\* the reference without its fragment and without its query string
WithoutQuery(ref) == Before(Before(ref, <<"#">>), <<"?">>)

\* the path of a reference: an absolute URL loses its scheme and host
HostEnd(rest) == FirstOf(rest, {"/"})

PathAfterHost(rest) == SubSeq(rest, HostEnd(rest), Len(rest))

PathOfRef(ref) ==
    IF StartsWith(Lower(ref), <<"h","t","t","p","s",":","/","/">>)
    THEN PathAfterHost(SubSeq(WithoutQuery(ref), 9, Len(WithoutQuery(ref))))
    ELSE WithoutQuery(ref)

\* the extension of a path: what follows the last '.' of its last segment
LastOf(s, c) == Greatest({i \in 1..Len(s) : s[i] = c})

LastSegment(path) == SubSeq(path, LastOf(path, "/") + 1, Len(path))

ExtensionIn(segment) ==
    IF LastOf(segment, ".") = 0 THEN <<>>
    ELSE Lower(SubSeq(segment, LastOf(segment, ".") + 1, Len(segment)))

ExtensionOf(ref) == ExtensionIn(LastSegment(PathOfRef(ref)))

TypeOfExtension(ext) ==
    IF ext = <<"p","d","f">> THEN "PDF"
    ELSE IF ext \in {<<"p","n","g">>, <<"j","p","g">>, <<"j","p","e","g">>, <<"g","i","f">>, <<"s","v","g">>, <<"i","c","o">>}
    THEN "IMAGES"
    ELSE IF ext = <<"c","s","s">> THEN "CSS"
    ELSE IF ext = <<"j","s">> THEN "JS"
    ELSE IF ext \in {<<"h","t","m","l">>, <<"h","t","m">>} THEN "HTML"
    ELSE IF ext \in {<<"t","x","t">>, <<"x","m","l">>, <<"j","s","o","n">>} THEN "TEXT"
    ELSE "OTHER"

Classified == pc = "classified"

\* C12: classify_resource is a function of the extension of the reference's
\* path alone, compared without regard to case and with query string and
\* fragment ignored: .pdf is PDF; .png, .jpg, .jpeg, .gif, .svg, .ico are
\* IMAGES; .css is CSS; .js is JS; .html, .htm are HTML; .txt, .xml, .json
\* are TEXT; anything else is OTHER.
C12_Classify ==
    Classified => last.result.type = TypeOfExtension(ExtensionOf(last.result.resource))

C12_Witness ==
    /\ Classified
    /\ last.result.resource = <<"x",".","j","s","/","c",".","P","D","F","?","x","=","1","#","y">>
    /\ last.result.type = "PDF"

\* the scheme of a reference, in lower case; empty when it has none
SchemeOfRef(ref) ==
    IF Contains(ref, <<":">>) THEN Lower(Before(ref, <<":">>)) ELSE <<>>

ExcludedSchemes == {<<"j","a","v","a","s","c","r","i","p","t">>,
                    <<"m","a","i","l","t","o">>, <<"t","e","l">>}

\* C13: the set the extractor returns for a document contains no
\* fragment-only anchor (a value beginning with '#') and no reference using
\* the javascript:, mailto: or tel: scheme.
C13_Claim ==
    \A i \in 1..Len(queue) :
        /\ ~StartsWith(queue[i], <<"#">>)
        /\ SchemeOfRef(queue[i]) \notin ExcludedSchemes

\* C14: an external reference (absolute http:// or https:// URL) never
\* resolves locally: its result has local_exists false whatever the site
\* holds, neither the direct lookup nor the context-aware one resolves it,
\* and its status is the outcome of the one remote probe.
C14_ExternalNeverLocal ==
    /\ \A r \in AllResults :
          ExternalReference(r) =>
              /\ ~r.local_exists
              /\ r.status = "PASS" <=> r.web_accessible
    /\ (Tested /\ ExternalReference(last.result)) =>
          /\ ~last.local.direct
          /\ ~last.local.local_ok
          /\ ~_resolve_local_with_context(site, last.result.resource,
                                          last.local.referer_dir).ok
          /\ Len(last.probes) = 1
          /\ last.result.web_accessible = last.probes[1].accessible

\* the site holds a file at the path that the URL spells
C14_Witness ==
    /\ Tested
    /\ ExternalReference(last.result)
    /\ exists(site, local_path \o PathParts(last.result.resource))
    /\ last.local.fallback
    /\ last.result.status = "FAIL"

\* the references extracted from a document
ExtractedOf(d) == extract_resources_from_html(markup[d])

\* the documents of the site that hold the reference
DocsHolding(ref) == {d \in DOMAIN markup : ref \in ExtractedOf(d)}

\* the results recorded for the reference
VerdictsFor(ref) ==
    UNION {{<<t, i>> : i \in {j \in 1..Len(results[t]) : results[t][j].resource = ref}}
           : t \in ResourceTypes}

AllExtracted == UNION {ExtractedOf(d) : d \in DOMAIN markup}

OneVerdictPerPair ==
    /\ \A r \in AllResults : r.resource \in AllExtracted
    /\ \A ref \in AllExtracted :
          Cardinality(VerdictsFor(ref)) = Cardinality(DocsHolding(ref))

\* C15: no per-reference error aborts the run: for every site content and
\* every remote behaviour the run reaches report generation, and the results
\* then hold exactly one Verdict for every extracted (document, reference)
\* pair.
C15_Claim ==
    /\ pc # "aborted"
    /\ pc = "reported" => OneVerdictPerPair

\* C16: a configuration error is fatal to the whole run: when the site root
\* directory does not exist, the run produces no normal report and ends with
\* a non-zero exit status.
C16_Claim ==
    ~root_exists =>
        /\ pc # "reported"
        /\ pc = "done" => exit_code # 0

\* C17: deduplication is per (document, reference) pair and not global: a
\* reference held by several elements of one document gets one Verdict for
\* that document, the same reference in two documents gets two Verdicts, each
\* resolved with the directory of its own document as context, and the
\* number of Verdicts is the sum over the documents of their distinct
\* references.
C17_PerDocument ==
    /\ Tested =>
          \E k \in 1..Len(processed) :
              /\ last.local.referer_dir = Parent(processed[k])
              /\ last.local.resource \in ExtractedOf(processed[k])
    /\ pc \in {"reported", "done"} =>
          /\ OneVerdictPerPair
          /\ Cardinality(UNION {VerdictsFor(ref) : ref \in AllExtracted})
                = Cardinality({<<d, ref>> \in (DOMAIN markup) \X AllExtracted :
                                  ref \in ExtractedOf(d)})
          /\ report.total
                = Cardinality({<<d, ref>> \in (DOMAIN markup) \X AllExtracted :
                                  ref \in ExtractedOf(d)})

\* both documents hold a reference that only one of them resolves locally
C17_Witness ==
    /\ pc = "done"
    /\ \E i, j \in 1..Len(results["HTML"]) :
          /\ results["HTML"][i].resource = results["HTML"][j].resource
          /\ results["HTML"][i].local_exists
          /\ ~results["HTML"][j].local_exists
    /\ report.total = 2

\* C18: in local (non-CI) execution every failure is recorded in the
\* persistent failure log: each local resolution miss (file not found or
\* anchor not found) and each failed remote probe (unacceptable status or
\* connection error) appends a record to the log.  The log is the sink of
\* local_test_logger; the property is stated for runs that imported it.
C18_Claim ==
    (Tested /\ ~IS_CI /\ LOCAL_LOGGING_ENABLED) =>
        /\ (~ExternalReference(last.result) /\ ~last.local.direct)
              => last.local.file_logged
        /\ \A k \in 1..Len(last.probes) :
              ~last.probes[k].accessible => last.probes[k].logged # "none"

\* the documents already analyzed whose extraction failed
FailedDocuments ==
    {d \in DOMAIN markup :
        /\ ~markup[d].readable
        /\ \E k \in 1..Len(processed) : processed[k] = d}

\* C19: a document whose extraction fails is not dropped silently: it is
\* counted in the report as a failure of type "other" (and extraction gives
\* back what it could recover instead of ending the run).
C19_Claim ==
    (pc \in {"reported", "done"} /\ FailedDocuments # {}) =>
        /\ report.failed >= Cardinality(FailedDocuments)
        /\ Cardinality({i \in 1..Len(results["OTHER"]) :
                            results["OTHER"][i].status = "FAIL"})
              >= Cardinality(FailedDocuments)

\* the markup documents of the site: its files named *.html or *.htm
MarkupDocuments ==
    {f.path : f \in {g \in site :
                        \/ EndsWith(g.path[Len(g.path)], DOT_HTML)
                        \/ EndsWith(g.path[Len(g.path)], <<".","h","t","m">>)}}

HiddenPath(path) == \E k \in 1..Len(path) : StartsWithDot(path[k])

TimesProcessed(d) == Cardinality({k \in 1..Len(processed) : processed[k] = d})

\* C20: the orchestrator processes every markup document (.html and .htm)
\* below the site root exactly once, except the documents that have a path
\* component beginning with '.', which are never processed.
C20_Claim ==
    (root_exists /\ pc \in {"reported", "done"}) =>
        \A d \in MarkupDocuments :
            TimesProcessed(d) = (IF HiddenPath(d) THEN 0 ELSE 1)

DirectCandidateIsFile ==
    /\ Tested
    /\ ~ExternalReference(last.result)
    /\ exists(site, JoinPath(local_path, CleanPath(last.result.resource)))
    /\ CanRead(site, JoinPath(local_path, CleanPath(last.result.resource)))

\* C22: the context-aware fallback (referrer-directory re-resolution and
\* bare-filename search) is exercised only when the direct root-relative
\* candidate is missing: when that candidate exists, the resolution result,
\* anchor check included, is the result of the check on that candidate alone.
C22_Claim ==
    DirectCandidateIsFile =>
        /\ ~last.local.fallback
        /\ last.result.local_exists
              = test_local_file_exists(site, last.result.resource)

\* the file the local resolution of the last reference ended on
Target ==
    IF last.local.local_ok THEN last.local.resolved_path
    ELSE JoinPath(local_path, CleanPath(last.result.resource))

\* the text holds an element with the attribute name or id equal to f, in
\* either quoting style
AnchorElementIn(text, f) ==
    \E attr \in {<<"n","a","m","e">>, <<"i","d">>} : \E q \in {"\"", "'"} :
        Contains(text, <<" ">> \o attr \o <<"=", q>> \o f \o <<q>>)

\* the last reference has a fragment and resolved to a markup file
MarkupTargetCase ==
    /\ Tested
    /\ ~ExternalReference(last.result)
    /\ FragmentOf(last.result.resource) # <<>>
    /\ classify_resource(CleanPath(last.result.resource)) = "HTML"
    /\ exists(site, Target)
    /\ CanRead(site, Target)

\* C23: for every locally resolved target that the classifier maps to markup
\* (.html or .htm, in any letter case) and every non-empty fragment, the
\* anchor check succeeds if and only if the target contains an element whose
\* name or id attribute equals the fragment exactly.
C23_Claim ==
    MarkupTargetCase =>
        (last.result.local_exists
            <=> AnchorElementIn(read_text(site, Target), FragmentOf(last.result.resource)))

\* path#fragment for the reference path?query#fragment
DropQuery(ref) ==
    CleanPath(ref) \o (IF HasFragment(ref) THEN <<"#">> \o FragmentOf(ref) ELSE <<>>)

\* the last reference has a query string
QueryCase ==
    /\ Tested
    /\ ~ExternalReference(last.result)
    /\ Contains(Before(last.result.resource, <<"#">>), <<"?">>)

\* local_exists of the same call, with the same answers of the servers, for
\* the reference without its query string
LocalWithoutQuery ==
    test_resource_with_context(site, IS_CI, LOCAL_LOGGING_ENABLED,
        DropQuery(last.result.resource), last.local.referer_dir,
        answers[1], answers[2], answers[3], answers[4]).result.local_exists

\* C24: the local resolution result of a reference is unchanged by a query
\* string: path?query#fragment gets the same local_exists (file existence and
\* anchor check) as path#fragment, on the direct resolution path and on the
\* context-aware fallback path.
C24_Claim == QueryCase => last.result.local_exists = LocalWithoutQuery

\* C25: local_exists is true only when the reference resolves to an existing
\* regular file: a reference whose stripped path designates a directory
\* below the site root, or is empty after stripping query and fragment, is
\* reported as not found locally, on the direct path, the referrer-directory
\* fallback and the filename search alike.
C25_Claim == (Tested /\ last.result.local_exists) => IsFile(site, resolve(Target))

\* C26: in CI a probe is answered as skipped (accessible=true, no request)
\* only for URLs whose host is on the skip-list; for every URL whose host is
\* not a skip-listed domain a real request is issued, and the answer is the
\* one computed from the response.
C26_Claim ==
    (Probed /\ IS_CI /\ ~OnSkipListedDomain(TheProbe.url)) =>
        /\ ~TheProbe.skipped
        /\ Len(TheProbe.requests) >= 1
        /\ TheProbe.requests[1] = "HEAD"

\* generate_report has returned
Reported == pc \in {"reported", "done"}

\* position of a type name in the sorted order of the type names
NameRank(t) ==
    CASE t = "CSS" -> 1 [] t = "HTML" -> 2 [] t = "IMAGES" -> 3 [] t = "JS" -> 4
      [] t = "OTHER" -> 5 [] t = "PDF" -> 6 [] t = "TEXT" -> 7

ListedOfType(t) == {i \in 1..Len(report.sample) : report.sample[i].type = t}

\* the entry lists a FAIL result of its type with the reasons that apply
ListsFailure(e) ==
    \E i \in 1..Len(results[e.type]) :
        /\ results[e.type][i].resource = e.resource
        /\ results[e.type][i].status = "FAIL"
        /\ (\E k \in 1..Len(e.reasons) : e.reasons[k].text = "not found locally")
              <=> ~results[e.type][i].local_exists
        /\ (\E k \in 1..Len(e.reasons) :
                /\ e.reasons[k].text = "web error"
                /\ e.reasons[k].status = results[e.type][i].web_status)
              <=> ~results[e.type][i].web_accessible

\* C27: the report's failure sample is size-bounded for every result set: at
\* most 5 failures are listed per resource type and at most 10 in total,
\* types are visited in sorted name order, and every listed entry is a FAIL
\* Verdict carrying the reasons that apply to it ("not found locally" and/or
\* "web error (<status>)").
C27_FailureSample ==
    Reported =>
        /\ Len(report.sample) <= 10
        /\ \A t \in ResourceTypes : Cardinality(ListedOfType(t)) <= 5
        /\ \A i, j \in 1..Len(report.sample) :
              i < j => NameRank(report.sample[i].type) <= NameRank(report.sample[j].type)
        /\ \A i \in 1..Len(report.sample) : ListsFailure(report.sample[i])
        /\ Len(report.sample) < 10 =>
              \A t \in ResourceTypes :
                  Cardinality(ListedOfType(t)) < 5 =>
                      Cardinality(ListedOfType(t)) = CountStatus(results[t], "FAIL")

\* six failures of each of three types: five, five and none are listed
C27_Witness ==
    /\ Reported
    /\ Len(report.sample) = 10
    /\ Cardinality(ListedOfType("CSS")) = 5
    /\ CountStatus(results["CSS"], "FAIL") = 6
    /\ Cardinality(ListedOfType("HTML")) = 5
    /\ CountStatus(results["PDF"], "FAIL") = 6
    /\ ListedOfType("PDF") = {}

\* the (document, reference) pairs, each with the type of its reference, in
\* the order in which a run that enumerates the documents in this order tests
\* them
RECURSIVE PairsIn(_)
PairsOf(d, refs) == [i \in 1..Len(refs) |-> <<d, refs[i], classify_resource(refs[i])>>]

PairsIn(order) ==
    IF order = <<>> THEN <<>>
    ELSE PairsOf(Head(order), Sorted(ExtractedOf(Head(order)))) \o PairsIn(Tail(order))

\* the Verdict that this run recorded for the j-th pair it tested
ResultAt(pairs, j) ==
    results[pairs[j][3]][Cardinality({i \in 1..j : pairs[i][3] = pairs[j][3]})]

ResultOfPair(pairs, p) == ResultAt(pairs, CHOOSE j \in 1..Len(pairs) : pairs[j] = p)

\* the results of the run that tests the pairs in another order and gets the
\* same Verdict for every pair
PairsOfType(other, t) == SelectSeq(other, LAMBDA p : p[3] = t)

ResultsOfPairs(actual, chosen) ==
    [j \in 1..Len(chosen) |-> ResultOfPair(actual, chosen[j])]

ResultsFor(actual, other) ==
    [t \in ResourceTypes |-> ResultsOfPairs(actual, PairsOfType(other, t))]

\* no reference is held by two documents, so that no URL is probed twice
NoSharedReference ==
    \A d1, d2 \in DOMAIN markup : d1 # d2 => ExtractedOf(d1) \cap ExtractedOf(d2) = {}

\* C28: the report is deterministic with respect to processing order: for a
\* fixed site content and fixed remote responses, the totals, the per-type
\* breakdown and the ordered failure sample are identical for every order in
\* which the documents are enumerated.
C28_Claim ==
    (Reported /\ NoSharedReference) =>
        \A order \in Orders({processed[k] : k \in 1..Len(processed)}) :
            generate_report(ResultsFor(PairsIn(processed), PairsIn(order))) = report

\* base URL, directory of the referring document and reference path
UrlIn(dir, path) ==
    base_url \o <<"/">> \o (IF dir = <<>> THEN <<>> ELSE JoinParts(dir) \o <<"/">>) \o path

\* the context-aware fallback resolved the last reference after a first probe
\* that was not accessible
RetryCase ==
    /\ Tested
    /\ last.local.fallback
    /\ last.local.local_ok
    /\ ~last.probes[1].accessible

\* C29: when the context-aware fallback resolves a reference locally and the
\* first remote probe was not accessible, the second probe is issued against
\* the well-formed absolute URL made of the base URL (scheme and host
\* unchanged), the referring document's directory and the reference path
\* (with or without its query string), and the Verdict's web_accessible and
\* web_status are those of this second probe.
C29_Claim ==
    RetryCase =>
        /\ Len(last.probes) = 2
        /\ last.probes[2].url
              \in {UrlIn(last.local.referer_dir, CleanPath(last.result.resource)),
                   UrlIn(last.local.referer_dir, Before(last.result.resource, <<"#">>))}
        /\ last.result.web_accessible = last.probes[2].accessible
        /\ last.result.web_status = last.probes[2].status_code

====
